---- MODULE Spec2Model ----
(***************************************************************************)
(* Network tomography simulator with Bernoulli losses                      *)
(* (Tomography_Bernoulli/simulator.py).  The command line is parsed, the   *)
(* heap-shaped topology is built by network_setup, and run_simulation      *)
(* walks the link array once per tick and then runs the estimator the mode *)
(* selects.  The classes Link, Host and Packet and est_bernoulli_prob live *)
(* in network.py, host.py, packet.py and algorithms.py, which the          *)
(* repository snapshot lacks: they are modelled from spec.md (sections     *)
(* 4.1, 4.2, 4.5).                                                         *)
(***************************************************************************)
EXTENDS Integers, Sequences, FiniteSets, TLC

VARIABLES argv, pc, args, link_array, host_array,
          yhat_dict, gamma_dict, alpha_dict,
          tick, i, first_packet, trace, delivered

vars == <<argv, pc, args, link_array, host_array,
          yhat_dict, gamma_dict, alpha_dict,
          tick, i, first_packet, trace, delivered>>

(* ------------------------------ bounds --------------------------------- *)
\* largest --ticks value on the command lines explored
MaxTicks == 2
\* run_simulation is explored for topologies of at most this many receivers
MaxRunRecvrs == 4

(* ---------------------------- constants -------------------------------- *)
\* bernoulli_setup(total_links, 0.1): the drop probability, in percent
DefaultBernoulli == 10

(* --------------------------- command line ------------------------------ *)
\* an option that is not on the command line
NoArg == "<absent>"

\* a --ticks token: an integer literal (by its value), a non-numeric word,
\* or no --ticks option at all
TicksTokens ==
  [kind : {"int"}, val : (-1)..MaxTicks]
    \cup {[kind |-> "word", val |-> 0], [kind |-> "absent", val |-> 0]}

RecvrTokens ==
  {"0", "1", "2", "3", "4", "6", "8", "16", "32", "64", "128", "256", "512", NoArg}

ModeTokens == {"sdn", "tomography", "SDN", NoArg}

\* int() of the decimal tokens above
IntOfStr ==
  ("0" :> 0) @@ ("1" :> 1) @@ ("2" :> 2) @@ ("3" :> 3) @@ ("4" :> 4)
  @@ ("6" :> 6) @@ ("8" :> 8) @@ ("16" :> 16) @@ ("32" :> 32)
  @@ ("64" :> 64) @@ ("128" :> 128) @@ ("256" :> 256) @@ ("512" :> 512)

\* type=int of --ticks: the literal's value; a word raises ValueError
TicksTypeOk(tok) == tok.kind = "int"

check_recvrs_mut(num_recvrs) == num_recvrs \in DOMAIN IntOfStr

\* check_recvrs: TRUE when the token is returned, FALSE when
\* ArgumentTypeError is raised
check_recvrs(num_recvrs) ==
  num_recvrs \in {"2", "4", "8", "16", "32", "64", "128", "256"}

\* check_mode: TRUE when the token is returned
check_mode(mode) == mode \in {"sdn", "tomography"}

\* parser.parse_args(): --ticks is required and converted by int; the two
\* optional arguments are converted by their checkers when present and take
\* their defaults otherwise (default=2 is the integer 2, and int(2) is
\* int('2'), so it is kept as the token "2")
ParseOk(av) ==
  /\ av.ticks.kind # "absent"
  /\ TicksTypeOk(av.ticks)
  /\ av.num_recvrs # NoArg => check_recvrs(av.num_recvrs)
  /\ av.mode # NoArg => check_mode(av.mode)

ParsedArgs(av) ==
  [ticks |-> av.ticks.val,
   num_recvrs |-> IF av.num_recvrs = NoArg THEN "2" ELSE av.num_recvrs,
   mode |-> IF av.mode = NoArg THEN "tomography" ELSE av.mode]

NoArgs == [ticks |-> 0, num_recvrs |-> NoArg, mode |-> NoArg]

(* ------------------------------ values --------------------------------- *)
RECURSIVE GCD(_, _)
GCD(a, b) == IF b = 0 THEN a ELSE GCD(b, a % b)

\* the quotient p/q (q > 0, p >= 0) as a fraction in lowest terms
Frac(p, q) == LET g == GCD(p, q) IN <<p \div g, q \div g>>

\* the placeholder an estimate takes while it has no data
Undefined == <<0, 0>>

(* --------------------- Packet, Link, Host (spec.md) --------------------- *)
\* Packet(tick): a probe is only its tick identifier
Packet(t) == t

\* Link(alpha): fixed drop probability, counters, packets that passed the
\* trial and wait for the bookkeeping step
Link(alpha) ==
  [bernoulli_alpha |-> alpha, attempts |-> 0, successes |-> 0, queue |-> <<>>]

\* Host(name)
Host(name) ==
  [name |-> name, downstream_nodes |-> <<>>, ready_to_send |-> TRUE,
   received |-> {}]

\* outcomes of one Bernoulli trial with drop probability alpha percent:
\* TRUE is a delivery
Bernoulli(alpha) ==
  IF alpha <= 0 THEN {TRUE} ELSE IF alpha >= 100 THEN {FALSE} ELSE {TRUE, FALSE}

\* link.recv(packet) with trial outcome ok: the attempt is always recorded
LinkRecv(link, packet, ok) ==
  [link EXCEPT !.attempts = @ + 1,
               !.successes = IF ok THEN @ + 1 ELSE @,
               !.queue = IF ok THEN Append(@, packet) ELSE @]

\* link.loss_rate(): 1 - successes/attempts, 0 before any attempt
loss_rate(link) ==
  IF link.attempts = 0 THEN Frac(0, 1)
  ELSE Frac(link.attempts - link.successes, link.attempts)

(* ------------------------- network_setup ------------------------------- *)
bernoulli_setup(total_links, default_bernoulli) ==
  [k \in 0..(total_links - 1) |-> default_bernoulli]

total_links_mut(num_recvrs) == 2 * num_recvrs - 1

total_links(num_recvrs) == 2 * num_recvrs

LinkAlpha_mut(k, bernoulli_array) == bernoulli_array[k]

\* the drop probability link k is built with
LinkAlpha(k, bernoulli_array) == IF k = 0 THEN 0 ELSE bernoulli_array[k]

LinkSetup(num_recvrs) ==
  LET bernoulli_array == bernoulli_setup(total_links(num_recvrs), DefaultBernoulli)
  IN [k \in 0..(total_links(num_recvrs) - 1) |-> Link(LinkAlpha(k, bernoulli_array))]

\* receiver_array[j] is named receiver{j+1}
ReceiverSetup(num_recvrs) ==
  [j \in 0..(num_recvrs - 1) |-> Host(<<"receiver", j + 1>>)]

\* router_array[0] is the sender, router_array[k] is router{k}
RouterSetup(num_recvrs) ==
  [k \in 0..(num_recvrs - 1) |->
     IF k = 0 THEN Host(<<"sender", 0>>) ELSE Host(<<"router", k>>)]

\* host_array = router_array + receiver_array
Concat(router_array, receiver_array) ==
  LET nr == Cardinality(DOMAIN router_array)
      nv == Cardinality(DOMAIN receiver_array)
  IN [k \in 0..(nr + nv - 1) |->
        IF k < nr THEN router_array[k] ELSE receiver_array[k - nr]]

\* the body of the wiring loop for node = host_array[incr]; a downstream
\* node is kept as its index in host_array
ConnectNode(node, incr) ==
  IF incr > 0
  THEN [node EXCEPT !.downstream_nodes = @ \o <<2 * incr, 2 * incr + 1>>]
  ELSE IF incr = 0
       THEN [node EXCEPT !.downstream_nodes = Append(@, incr + 1)]
       ELSE node

\* the values incr takes in "incr = start; while(incr > 0): body; incr -= 1":
\* start, start-1, ... down to the first value that fails the loop test
Visited(start) == {incr \in 0..start : \A m \in incr..start : m > 0}

\* the wiring loop: each visited node has the body applied to it once
Connect(hosts, start) ==
  LET visited == Visited(start)
  IN [k \in DOMAIN hosts |->
        IF k \in visited THEN ConnectNode(hosts[k], k) ELSE hosts[k]]

network_setup(num_recvrs) ==
  [link_array |-> LinkSetup(num_recvrs),
   host_array |-> Connect(Concat(RouterSetup(num_recvrs), ReceiverSetup(num_recvrs)),
                          num_recvrs - 1)]

Names(hosts) == {hosts[k].name : k \in DOMAIN hosts}

(* ------------------------------ Init ----------------------------------- *)
Empty == [k \in {} |-> 0]

Init ==
  /\ argv \in [ticks : TicksTokens, num_recvrs : RecvrTokens, mode : ModeTokens]
  /\ pc = "parse"
  /\ args = NoArgs
  /\ link_array = Empty
  /\ host_array = Empty
  /\ yhat_dict = Empty
  /\ gamma_dict = Empty
  /\ alpha_dict = Empty
  /\ tick = 0
  /\ i = 0
  /\ first_packet = -1
  /\ trace = <<>>
  /\ delivered = {}

(* ----------------------------- actions --------------------------------- *)
\* args = parser.parse_args(): argparse exits with an error on a missing
\* required option or a rejected value
ParseArgs ==
  /\ pc = "parse"
  /\ IF ParseOk(argv)
     THEN /\ args' = ParsedArgs(argv)
          /\ pc' = "setup"
     ELSE /\ args' = args
          /\ pc' = "error"
  /\ UNCHANGED <<argv, link_array, host_array, yhat_dict, gamma_dict,
                 alpha_dict, tick, i, first_packet, trace, delivered>>

\* num_recvrs = int(args.num_recvrs); network_setup; the three dictionaries
Setup ==
  /\ pc = "setup"
  /\ LET num_recvrs == IntOfStr[args.num_recvrs]
         net == network_setup(num_recvrs)
     IN /\ link_array' = net.link_array
        /\ host_array' = net.host_array
        /\ yhat_dict' = [nm \in Names(net.host_array) |-> <<>>]
        /\ gamma_dict' = [nm \in Names(net.host_array) |-> Frac(0, 1)]
        /\ alpha_dict' = [nm \in Names(net.host_array) |-> <<>>]
  /\ pc' = "loop"
  /\ UNCHANGED <<argv, args, tick, i, first_packet, trace, delivered>>

(* --------------------------- Host.send --------------------------------- *)
Range(q) == {q[k] : k \in DOMAIN q}

\* link.tick(tick, host): the bookkeeping step hands what waits on the link
\* to the owning host
HostAfterTick(host, link) == [host EXCEPT !.received = @ \cup Range(link.queue)]

LinkAfterTick(link) == [link EXCEPT !.queue = <<>>]

\* whether host.send(tick, ...) emits: the sender when it is ready, a router
\* when the probe of this tick has reached it
Emits(host, t) ==
  IF host.name = <<"sender", 0>> THEN host.ready_to_send ELSE t \in host.received

(* -------------------------- run_simulation ----------------------------- *)
len(array) == Cardinality(DOMAIN array)

\* num_recv = int(len(host_array) / 2); num_other = num_recv
num_other == len(host_array) \div 2

LinkPassEnd_mut(k) == k >= len(link_array) - 1

\* for i in range(0, len(link_array)): TRUE when the pass is over at index k
LinkPassEnd(k) == k >= len(link_array)

NextIndex_mut(k) == k + 2

\* for i in range(0, len(link_array)): the index that follows k
NextIndex(k) == k + 1

SendTargets_late(k) ==
  IF k = 0 THEN <<k + 1>>
  ELSE IF k > 1 /\ k < num_other THEN <<2 * k, 2 * k + 1>>
  ELSE <<>>

SendTargets_twice(k) ==
  IF k = 0 THEN <<k + 1>>
  ELSE IF k > 0 /\ k < num_other THEN <<2 * k, 2 * k>>
  ELSE <<>>

\* the links the host at index k is told to send through in the link pass
SendTargets(k) ==
  IF k = 0 THEN <<k + 1>>
  ELSE IF k > 0 /\ k < num_other THEN <<2 * k, 2 * k + 1>>
  ELSE <<>>

TickLoopContinues_mut(t) == t <= args.ticks

\* for tick in range(0, ticks): TRUE when the loop has a tick t to run
TickLoopContinues(t) == t < args.ticks

\* for tick in range(0, ticks): first_packet = Packet(tick)
LoopHead ==
  /\ pc = "loop"
  /\ len(link_array) <= 2 * MaxRunRecvrs
  /\ IF TickLoopContinues(tick)
     THEN /\ first_packet' = Packet(tick)
          /\ i' = 0
          /\ trace' = <<>>
          /\ pc' = IF LinkPassEnd(0) THEN "reset" ELSE "link"
     ELSE /\ pc' = "finished"
          /\ UNCHANGED <<first_packet, i, trace>>
  /\ UNCHANGED <<argv, args, link_array, host_array, yhat_dict, gamma_dict,
                 alpha_dict, tick, delivered>>

\* one iteration of the link pass, for link and host i; o0, o1, o2 are the
\* outcomes of the trials of link 0 and of the one or two links sent through
LinkStep ==
  /\ pc = "link"
  /\ \E o0, o1, o2 \in BOOLEAN :
       LET la0 == IF i = 0
                  THEN [link_array EXCEPT ![i] = LinkRecv(@, first_packet, o0)]
                  ELSE link_array
           ha1 == [host_array EXCEPT ![i] = HostAfterTick(@, la0[i])]
           la1 == [la0 EXCEPT ![i] = LinkAfterTick(@)]
           targets == SendTargets(i)
           emits == targets # <<>> /\ Emits(ha1[i], tick)
           la2 == IF emits
                  THEN [la1 EXCEPT ![targets[1]] = LinkRecv(@, Packet(tick), o1)]
                  ELSE la1
           la3 == IF emits /\ Len(targets) = 2
                  THEN [la2 EXCEPT ![targets[2]] = LinkRecv(@, Packet(tick), o2)]
                  ELSE la2
           ha2 == IF emits /\ i = 0
                  THEN [ha1 EXCEPT ![i].ready_to_send = FALSE]
                  ELSE ha1
       IN /\ o0 \in (IF i = 0 THEN Bernoulli(link_array[i].bernoulli_alpha) ELSE {TRUE})
          /\ o1 \in (IF emits THEN Bernoulli(la1[targets[1]].bernoulli_alpha) ELSE {TRUE})
          /\ o2 \in (IF emits /\ Len(targets) = 2
                     THEN Bernoulli(la1[targets[2]].bernoulli_alpha) ELSE {TRUE})
          /\ link_array' = la3
          /\ host_array' = ha2
          /\ delivered' = delivered \cup {<<p, i>> : p \in Range(la0[i].queue)}
          /\ trace' = trace
                \o (IF i = 0 THEN <<[op |-> "recv", at |-> i, to |-> <<>>]>> ELSE <<>>)
                \o <<[op |-> "tick", at |-> i, to |-> <<>>]>>
                \o (IF targets # <<>>
                    THEN <<[op |-> "send", at |-> i, to |-> targets]>> ELSE <<>>)
  /\ i' = NextIndex(i)
  /\ pc' = IF LinkPassEnd(NextIndex(i)) THEN "reset" ELSE "link"
  /\ UNCHANGED <<argv, args, yhat_dict, gamma_dict, alpha_dict, tick, first_packet>>

ResetSender_mut ==
  /\ pc = "reset"
  /\ pc' = "report"
  /\ UNCHANGED <<argv, args, link_array, host_array, yhat_dict, gamma_dict,
                 alpha_dict, tick, i, first_packet, trace, delivered>>

\* host_array[0].ready_to_send = True
ResetSender ==
  /\ pc = "reset"
  /\ host_array' = [host_array EXCEPT ![0].ready_to_send = TRUE]
  /\ pc' = "report"
  /\ UNCHANGED <<argv, args, link_array, yhat_dict, gamma_dict, alpha_dict,
                 tick, i, first_packet, trace, delivered>>

(* --------------------------- the estimators ---------------------------- *)
\* the index of the host a dictionary key names
HostOf(hosts, nm) == CHOOSE k \in DOMAIN hosts : hosts[k].name = nm

\* the observation points at or below host k: the hosts without downstream
\* nodes that its downstream references lead to
RECURSIVE Leaves(_, _)
Leaves(hosts, k) ==
  IF hosts[k].downstream_nodes = <<>> THEN {k}
  ELSE UNION {Leaves(hosts, c) : c \in Range(hosts[k].downstream_nodes)}

\* the number of ticks in 0..t in which a probe was seen at or below host k
Seen(hosts, k, t) ==
  Cardinality({u \in 0..t : \E r \in Leaves(hosts, k) : u \in hosts[r].received})

\* the hosts that have k among their downstream nodes
Parents(hosts, k) ==
  {p \in DOMAIN hosts : k \in Range(hosts[p].downstream_nodes)}

\* est_bernoulli_prob(host, yhat_dict, gamma_dict, alpha_dict, tick,
\* host_array) for host = host_array[k]: yhat and gamma are the fraction of
\* the probes so far that were seen at or below the host; alpha inverts the
\* product of the per-link success probabilities against the upstream host
est_bernoulli_prob(hosts, k, t) ==
  LET seen == Seen(hosts, k, t)
      up == IF Parents(hosts, k) = {} THEN t + 1
            ELSE Seen(hosts, CHOOSE p \in Parents(hosts, k) : TRUE, t)
  IN [yhat |-> Frac(seen, t + 1),
      gamma |-> Frac(seen, t + 1),
      alpha |-> IF up = 0 THEN Undefined ELSE Frac(up - seen, up)]

tomography_reporting_mut(t, hosts, yd, gd, ad) ==
  [yhat_dict |-> [nm \in DOMAIN yd |->
                    Append(yd[nm], est_bernoulli_prob(hosts, HostOf(hosts, nm), t + 1).yhat)],
   gamma_dict |-> [nm \in DOMAIN gd |->
                    est_bernoulli_prob(hosts, HostOf(hosts, nm), t + 1).gamma],
   alpha_dict |-> [nm \in DOMAIN ad |->
                    Append(ad[nm], est_bernoulli_prob(hosts, HostOf(hosts, nm), t + 1).alpha)]]

\* tomography_reporting(tick, host_array, yhat_dict, gamma_dict, alpha_dict)
tomography_reporting(t, hosts, yd, gd, ad) ==
  [yhat_dict |-> [nm \in DOMAIN yd |->
                    IF nm \in Names(hosts)
                    THEN Append(yd[nm], est_bernoulli_prob(hosts, HostOf(hosts, nm), t).yhat)
                    ELSE yd[nm]],
   gamma_dict |-> [nm \in DOMAIN gd |->
                    IF nm \in Names(hosts)
                    THEN est_bernoulli_prob(hosts, HostOf(hosts, nm), t).gamma
                    ELSE gd[nm]],
   alpha_dict |-> [nm \in DOMAIN ad |->
                    IF nm \in Names(hosts)
                    THEN Append(ad[nm], est_bernoulli_prob(hosts, HostOf(hosts, nm), t).alpha)
                    ELSE ad[nm]]]

IncomingLink_mut(links, k) == links[k \div 2]

\* incoming_link = link_array[i] in sdn_reporting
IncomingLink(links, k) == links[k]

sdn_reporting_mut(t, hosts, links, ad) ==
  [nm \in DOMAIN ad |->
     IF nm \in Names(hosts) /\ HostOf(hosts, nm) < len(hosts) - 1
     THEN Append(ad[nm], loss_rate(IncomingLink(links, HostOf(hosts, nm))))
     ELSE ad[nm]]

\* sdn_reporting(tick, host_array, link_array, alpha_dict)
sdn_reporting(t, hosts, links, ad) ==
  [nm \in DOMAIN ad |->
     IF nm \in Names(hosts)
     THEN Append(ad[nm], loss_rate(IncomingLink(links, HostOf(hosts, nm))))
     ELSE ad[nm]]

RunsTomography_mut == TRUE

\* if(args.mode == 'tomography')
RunsTomography == args.mode = "tomography"

\* if(args.mode == 'sdn')
RunsSdn == args.mode = "sdn"

\* the estimation step that ends a tick: both mode tests of run_simulation
Report ==
  /\ pc = "report"
  /\ LET tomo == tomography_reporting(tick, host_array, yhat_dict, gamma_dict, alpha_dict)
         yd1 == IF RunsTomography THEN tomo.yhat_dict ELSE yhat_dict
         gd1 == IF RunsTomography THEN tomo.gamma_dict ELSE gamma_dict
         ad1 == IF RunsTomography THEN tomo.alpha_dict ELSE alpha_dict
         ad2 == IF RunsSdn
                THEN sdn_reporting(tick, host_array, link_array, ad1) ELSE ad1
     IN /\ yhat_dict' = yd1
        /\ gamma_dict' = gd1
        /\ alpha_dict' = ad2
  /\ tick' = tick + 1
  /\ pc' = "loop"
  /\ UNCHANGED <<argv, args, link_array, host_array, i, first_packet, trace,
                 delivered>>

Next == ParseArgs \/ Setup \/ LoopHead \/ LinkStep \/ ResetSender \/ Report

Spec == Init /\ [][Next]_vars

\* the command lines of the two-receiver topology (and a rejected one)
RunInit == Init /\ argv.num_recvrs \in {"2", "3", NoArg}

\* the program is one thread that runs every statement to completion: a
\* step that can be taken is taken
FairSpec == RunInit /\ [][Next]_vars /\ WF_vars(Next)

(* ======================= properties of the program ===================== *)
\* network_setup has returned and the dictionaries exist
Built == pc \in {"loop", "link", "reset", "report", "finished"}

\* the number of receivers of the run
NumRecvrs == IntOfStr[args.num_recvrs]

NameAt(k) == host_array[k].name

IsPowerOfTwo(m) == \E e \in 0..10 : m = 2 ^ e

\* the links whose bookkeeping step ran in the current tick
TickedLinks == {trace[k].at : k \in {m \in DOMAIN trace : trace[m].op = "tick"}}

\* the number of ticks in 0..t in which the probe reached host k
Reached(k, t) == Cardinality({u \in 0..t : <<u, k>> \in delivered})

\* the number of ticks in 0..t in which a probe was handed to link k: links
\* 0 and 1 in every tick, link k >= 2 when the probe reached its router
HandedTo(k, t) == IF k <= 1 THEN t + 1 ELSE Reached(k \div 2, t)

(* C1: after network_setup(n) the sender has exactly the one downstream    *)
(* node 1, router i (0 < i < n) has exactly the nodes 2i and 2i+1 in that  *)
(* order, and a receiver (index >= n) has none.                            *)
C1_DownstreamByRole ==
  Built =>
    /\ host_array[0].downstream_nodes = <<1>>
    /\ \A k \in 1..(NumRecvrs - 1) :
         host_array[k].downstream_nodes = <<2 * k, 2 * k + 1>>
    /\ \A k \in NumRecvrs..(2 * NumRecvrs - 1) :
         host_array[k].downstream_nodes = <<>>

(* C2: a command line with a non-positive --ticks value is rejected before *)
(* any host or link is built and before run_simulation starts; it never    *)
(* reaches the finished state.                                             *)
C2_NonPositiveTicksRejected ==
  (argv.ticks.kind = "int" /\ argv.ticks.val <= 0) =>
    /\ pc \in {"parse", "error"}
    /\ host_array = Empty
    /\ link_array = Empty

(* C3: --num_recvrs 256 is rejected by check_recvrs, so no topology with   *)
(* 256 receivers (512 hosts and links) is ever built.                      *)
C3_Rejects256 ==
  argv.num_recvrs = "256" =>
    /\ pc \in {"parse", "error"}
    /\ len(host_array) # 512
    /\ len(link_array) # 512

C5_SdnAlphaIsLinkLossRate ==
  (Built /\ args.mode = "sdn") =>
    \A k \in DOMAIN host_array :
      /\ \A t \in 0..(Len(alpha_dict[NameAt(k)]) - 1) :
           alpha_dict[NameAt(k)][t + 1] =
             IF HandedTo(k, t) = 0 THEN <<0, 1>>
             ELSE Frac(HandedTo(k, t) - Reached(k, t), HandedTo(k, t))
      /\ (pc = "loop" /\ tick > 0) =>
           alpha_dict[NameAt(k)][tick] = loss_rate(link_array[k])

\* after two ticks link 1 and the link of a receiver have different loss
\* rates, both recorded
C5_Witness ==
  /\ Built /\ args.mode = "sdn" /\ pc = "loop" /\ tick = 2
  /\ alpha_dict[NameAt(1)][2] = <<0, 1>>
  /\ \E k \in NumRecvrs..(2 * NumRecvrs - 1) : alpha_dict[NameAt(k)][2] = <<1, 2>>

(* C6: the estimator update of tick t runs only when the link pass of t    *)
(* has processed every link index 0..2n-1, it changes no link or host, and *)
(* it is over before any link or host step of tick t+1: every step of a    *)
(* link pass finds exactly one estimate per completed tick.                *)
EstimatorStep ==
  /\ pc # "setup"
  /\ (yhat_dict' # yhat_dict \/ gamma_dict' # gamma_dict \/ alpha_dict' # alpha_dict)

LinkPassStep == pc # "setup" /\ (link_array' # link_array \/ host_array' # host_array)

C6_EstimatorAfterFullPass ==
  [][/\ EstimatorStep =>
          /\ TickedLinks = 0..(2 * NumRecvrs - 1)
          /\ i = 2 * NumRecvrs
          /\ \A k \in DOMAIN link_array : link_array[k].queue = <<>>
          /\ link_array' = link_array
          /\ host_array' = host_array
          /\ trace' = trace
          /\ tick' = tick + 1
          /\ pc' = "loop"
     /\ LinkPassStep =>
          \A k \in DOMAIN host_array :
            /\ Len(alpha_dict[NameAt(k)]) = tick
            /\ alpha_dict' = alpha_dict
            /\ yhat_dict' = yhat_dict
            /\ gamma_dict' = gamma_dict]_vars

\* the estimator is about to run for the second tick, after a full pass
C6_Witness ==
  /\ pc = "report" /\ tick = 1
  /\ TickedLinks = DOMAIN link_array
  /\ NumRecvrs = 4

(* C7: after k completed ticks every one of the 2n hosts has exactly k     *)
(* entries in the series of the selected mode: the alpha series in sdn     *)
(* mode, the y-hat and the alpha-hat series in tomography mode.            *)
C7_OneValuePerHostPerTick ==
  Built =>
    /\ tick >= 0
    /\ tick <= args.ticks \/ tick = 0
    /\ DOMAIN alpha_dict = Names(host_array)
    /\ DOMAIN yhat_dict = Names(host_array)
    /\ Cardinality(Names(host_array)) = 2 * NumRecvrs
    /\ \A k \in DOMAIN host_array :
         /\ Len(alpha_dict[NameAt(k)]) = tick
         /\ args.mode = "tomography" => Len(yhat_dict[NameAt(k)]) = tick

C7_Witness ==
  /\ pc = "finished" /\ args.mode = "sdn" /\ args.ticks = 2
  /\ \A k \in DOMAIN host_array : Len(alpha_dict[NameAt(k)]) = 2

(* C8: link 0 never drops: it is built with drop probability 0, so its     *)
(* success count equals its attempt count and its loss rate is 0 after any *)
(* number of ticks.                                                        *)
C8_Link0NeverDrops ==
  Built =>
    /\ link_array[0].bernoulli_alpha = 0
    /\ link_array[0].successes = link_array[0].attempts
    /\ loss_rate(link_array[0]) = <<0, 1>>

C8_Witness ==
  /\ Built
  /\ link_array[0].attempts = 2
  /\ link_array[1].successes < link_array[1].attempts

(* C9: network_setup(n) returns a host array and a link array of length    *)
(* exactly 2n, the sender at index 0, routers at 1..n-1, receivers at      *)
(* n..2n-1, and both lengths stay so for the whole run.                    *)
C9_ArrayLengths ==
  Built =>
    /\ DOMAIN host_array = 0..(2 * NumRecvrs - 1)
    /\ DOMAIN link_array = 0..(2 * NumRecvrs - 1)
    /\ len(host_array) = 2 * NumRecvrs
    /\ len(link_array) = len(host_array)
    /\ NameAt(0) = <<"sender", 0>>
    /\ \A k \in 1..(NumRecvrs - 1) : NameAt(k) = <<"router", k>>
    /\ \A k \in NumRecvrs..(2 * NumRecvrs - 1) :
         NameAt(k) = <<"receiver", k - NumRecvrs + 1>>

C9_Witness ==
  /\ pc = "finished" /\ args.ticks = 2 /\ NumRecvrs = 4
  /\ len(link_array) = 8

(* C10: a --num_recvrs value that is not a power of two (3, for example)   *)
(* is rejected by the validator and network_setup is never invoked for it: *)
(* no host and no link is built.                                           *)
C10_NonPowerOfTwoRejected ==
  (argv.num_recvrs # NoArg /\ ~IsPowerOfTwo(IntOfStr[argv.num_recvrs])) =>
    /\ pc \in {"parse", "error"}
    /\ host_array = Empty
    /\ link_array = Empty

C10_Witness ==
  /\ argv.num_recvrs = "3"
  /\ argv.ticks.kind = "int" /\ argv.ticks.val > 0
  /\ argv.mode = "sdn"
  /\ pc = "error"

(* C11: for a positive --ticks value N run_simulation processes exactly N  *)
(* ticks, with ids 0, 1, ..., N-1 in increasing order, and then halts: a   *)
(* tick starts only with the id that equals the number of completed ticks, *)
(* below N; the count grows by one, at the estimation step only; the run   *)
(* finishes only with N ticks done and takes no step afterwards; and a run *)
(* that has entered run_simulation eventually finishes, whatever the       *)
(* trials and estimates were.                                              *)
TickStarts == pc = "loop" /\ pc' \in {"link", "reset"}

\* run_simulation has been entered for a topology within the run bound
RunEntered ==
  pc = "loop" /\ args.ticks > 0 /\ len(link_array) <= 2 * MaxRunRecvrs

C11_ExactlyNTicksThenHalt ==
  /\ [][args.ticks > 0 =>
          /\ TickStarts =>
               /\ first_packet' = tick
               /\ tick \in 0..(args.ticks - 1)
          /\ tick' # tick => (pc = "report" /\ tick' = tick + 1)
          /\ (pc # "finished" /\ pc' = "finished") => tick = args.ticks
          /\ pc = "finished" => UNCHANGED vars]_vars
  /\ RunEntered ~> (pc = "finished" /\ tick = args.ticks)

\* a run of two ticks has finished although probes were dropped in it
C11_Witness ==
  /\ pc = "finished" /\ args.ticks = 2 /\ tick = 2 /\ first_packet = 1
  /\ \E k \in DOMAIN link_array : link_array[k].successes < link_array[k].attempts

\* the link pass of the tick that was started last is over
PassDone == pc \in {"reset", "report"} \/ (pc \in {"loop", "finished"} /\ tick > 0)

\* the place of a call within the iteration of the link pass it belongs to
Rank(op) == IF op = "recv" THEN 0 ELSE IF op = "tick" THEN 1 ELSE 2

\* the positions of the trace with a call op of index k
Calls(op, k) == {p \in DOMAIN trace : trace[p].op = op /\ trace[p].at = k}

\* the host that hands the probe to link j >= 1
Upstream(j) == IF j = 1 THEN 0 ELSE j \div 2

\* the number of hand-offs to link j in the current tick: the injection by
\* the driver and every mention of j in the links of a send
HandOffs(j) ==
  Cardinality(Calls("recv", j))
  + Cardinality({pm \in (DOMAIN trace) \X {1, 2} :
       /\ trace[pm[1]].op = "send"
       /\ pm[2] \in DOMAIN trace[pm[1]].to
       /\ trace[pm[1]].to[pm[2]] = j})

(* C13: within a tick the link pass is strictly ascending in heap index:   *)
(* the bookkeeping step of link i and the send of host i (sender, router)  *)
(* come before those of every j > i, the step of an index before its send, *)
(* and every link index 0..2n-1 has its bookkeeping step exactly once per  *)
(* tick.                                                                   *)
C13_AscendingIndexOrder ==
  Built =>
    /\ \A p, q \in DOMAIN trace :
         p < q =>
           \/ trace[p].at < trace[q].at
           \/ /\ trace[p].at = trace[q].at
              /\ Rank(trace[p].op) < Rank(trace[q].op)
    /\ \A k \in 0..(2 * NumRecvrs - 1) :
         Cardinality(Calls("tick", k)) = IF k < i THEN 1 ELSE 0
    /\ \A k \in 0..(2 * NumRecvrs - 1) :
         Cardinality(Calls("send", k)) = IF k < i /\ k < NumRecvrs THEN 1 ELSE 0
    /\ PassDone => i = 2 * NumRecvrs
    /\ pc = "link" => i < 2 * NumRecvrs

\* a whole pass over the eight links of the four-receiver topology
C13_Witness ==
  /\ pc = "report" /\ NumRecvrs = 4 /\ tick = 1
  /\ Len(trace) = 13
  /\ trace[13] = [op |-> "tick", at |-> 7, to |-> <<>>]

(* C14: the sender's send is invoked exactly once in every tick and always *)
(* targets link 1, and ready_to_send is true again after every link pass:  *)
(* the flag is true at the start of every link pass, so the sender emits   *)
(* exactly one probe per tick (link 1 has one attempt per tick).           *)
C14_SenderSendsOncePerTick ==
  Built =>
    /\ \A p \in Calls("send", 0) : trace[p].to = <<1>>
    /\ Cardinality(Calls("send", 0)) = IF i >= 1 THEN 1 ELSE 0
    /\ (pc = "link" /\ i = 0) => host_array[0].ready_to_send
    /\ pc \in {"report", "loop", "finished"} => host_array[0].ready_to_send
    /\ link_array[1].attempts =
         IF (pc = "link" /\ i >= 1) \/ pc \in {"reset", "report"}
         THEN tick + 1 ELSE tick

\* the sender has just emitted the probe of the second tick
C14_Witness ==
  /\ pc = "link" /\ i = 1 /\ tick = 1
  /\ ~host_array[0].ready_to_send
  /\ link_array[1].attempts = 2

(* C15: in every tick the hand-off to link j >= 1 (by the sender for j =   *)
(* 1, by router floor(j/2) otherwise) comes before link j's bookkeeping    *)
(* step and host j's send, so the probe of tick t crosses the whole tree   *)
(* within tick t: nothing waits on a link whose step is done, and no host  *)
(* ever holds a probe of a later tick than the current one.                *)
C15_HandOffBeforeBookkeeping ==
  Built =>
    /\ \A q \in DOMAIN trace :
         (trace[q].op \in {"tick", "send"} /\ trace[q].at >= 1) =>
           \E p \in 1..(q - 1) :
             /\ trace[p].op = "send"
             /\ trace[p].at = Upstream(trace[q].at)
             /\ trace[q].at \in Range(trace[p].to)
    /\ \A j \in DOMAIN link_array :
         (j < i \/ PassDone) => link_array[j].queue = <<>>
    /\ \A j \in DOMAIN link_array : Range(link_array[j].queue) \subseteq {tick}
    /\ \A d \in delivered :
         IF pc \in {"loop", "finished"} THEN d[1] < tick ELSE d[1] <= tick

\* the probe of the first tick reached the last receiver of the
\* four-receiver tree, three links below the sender, within that tick
C15_Witness ==
  /\ pc = "report" /\ tick = 0 /\ NumRecvrs = 4
  /\ <<0, 7>> \in delivered
  /\ 0 \in host_array[7].received

(* C16: in every tick each link index j in 0..2n-1 is the target of        *)
(* exactly one hand-off: link 0 of the packet the driver injects, tagged   *)
(* with the tick id, link 1 of the sender's send only, link j >= 2 of the  *)
(* send of router floor(j/2) only; no send names a link outside 0..2n-1    *)
(* and no link is targeted twice or skipped.                               *)
C16_OneHandOffPerLink ==
  Built =>
    /\ \A p \in DOMAIN trace :
         /\ trace[p].op = "recv" => trace[p].at = 0
         /\ trace[p].op = "send" =>
              \A m \in DOMAIN trace[p].to :
                /\ trace[p].to[m] \in 1..(2 * NumRecvrs - 1)
                /\ trace[p].at = Upstream(trace[p].to[m])
                /\ trace[p].at \in 0..(NumRecvrs - 1)
    /\ \A j \in 0..(2 * NumRecvrs - 1) : HandOffs(j) <= 1
    /\ PassDone => \A j \in 0..(2 * NumRecvrs - 1) : HandOffs(j) = 1
    /\ pc \in {"link", "reset", "report"} => first_packet = tick
    /\ pc \in {"reset", "report"} => link_array[0].attempts = tick + 1

C16_Witness ==
  /\ pc = "reset" /\ NumRecvrs = 4 /\ tick = 1
  /\ \A j \in 0..7 : HandOffs(j) = 1

(* C17: in every tick exactly one estimator runs, the one the mode         *)
(* selects: in sdn mode every host's y-hat series stays empty and its      *)
(* gamma stays 0; in either mode the alpha series gets one entry per tick, *)
(* so in tomography mode sdn_reporting adds nothing to it.                 *)
C17_OnlySelectedEstimatorRuns ==
  Built =>
    /\ args.mode \in {"sdn", "tomography"}
    /\ \A nm \in Names(host_array) :
         /\ Len(alpha_dict[nm]) = tick
         /\ args.mode = "sdn" => (yhat_dict[nm] = <<>> /\ gamma_dict[nm] = <<0, 1>>)
         /\ args.mode = "tomography" => Len(yhat_dict[nm]) = tick

\* an sdn run of two ticks with drops has finished
C17_Witness ==
  /\ pc = "finished" /\ args.mode = "sdn" /\ tick = 2
  /\ alpha_dict[NameAt(1)] = <<<<1, 1>>, <<1, 2>>>>
  /\ \A nm \in Names(host_array) : yhat_dict[nm] = <<>>
====
